---------------------------- MODULE Spec2Model ----------------------------
(***************************************************************************)
(* Dead Simple Infrastructure: the control plane (backend/server.py) and   *)
(* the agent (backend/agent.py) as one state machine.                      *)
(*                                                                         *)
(* Coroutines are interleaved at their suspension points (await): one      *)
(* action is the code a coroutine runs between two awaits.  A websocket is *)
(* a pair of FIFO queues per session.  The container runtime, git and the  *)
(* network are the environment: a call to them picks one of the outcomes   *)
(* the call can have.                                                      *)
(***************************************************************************)
EXTENDS Integers, Sequences, FiniteSets, TLC

(***************************************************************************)
(* Bounds of the model.                                                    *)
(***************************************************************************)
\* length of a deployment id (a uuid4 string has 36 characters)
IdLen == 9
\* deployments whose image tag is computed in SpecTag
MaxTagRuns == 2
\* cumulative CPU counters range over 0..MaxCounter
MaxCounter == 3
\* websocket sessions opened in one run
MaxSessions == 2
\* consecutive failed connection attempts of one agent
MaxFails == 6
\* deployments triggered in one run
MaxDeploys == 2
\* stream_logs subscriptions in one run
MaxSubs == 3
\* messages in flight in one direction of one session
MaxQueue == 1
\* log lines that the containers write in one run
MaxLogs == 2
\* output lines of one image build
MaxBuildLogs == 1
\* sessions opened plus deployments triggered in one run
MaxLoad == 3

(***************************************************************************)
(* Program constants.                                                      *)
(***************************************************************************)
\* agent.py:35-37, the retry configuration (read by no code of agent.py)
MAX_RETRIES == 3
INITIAL_BACKOFF == 2
MAX_BACKOFF == 60
\* agent.py:77, asyncio.sleep(5) after a failed connection attempt
RETRY_SLEEP == 5
\* agent.py:166, deployment_id[:8]
TAG_PREFIX_LEN == 8

Min(a, b) == IF a <= b THEN a ELSE b

\* Python's s[:n]
Take(s, n) == SubSeq(s, 1, Min(n, Len(s)))

\* the characters a deployment id is made of
IdChars == {"0", "1"}

\* the deployment ids of the model: strings of IdLen characters
DeploymentIdStrings == [1..IdLen -> IdChars]

\* agent.py:132, app_name of the deploy command
TagAppName == <<"w", "e", "b">>

(***************************************************************************)
(* agent.py:166  image_tag = f"dsi-{app_name}:{deployment_id[:8]}"         *)
(***************************************************************************)
ImageTag(app_name, deployment_id) ==
    <<"d", "s", "i", "-">> \o app_name \o <<":">> \o Take(deployment_id, TAG_PREFIX_LEN)

(***************************************************************************)
(* agent.py:285-289 and 298: the CPU share of one stats sample, in         *)
(* hundredths of a percent (round(cpu_percent, 2) * 100).                  *)
(***************************************************************************)
\* round(num / den, 0) for den > 0, ties to even as Python's round
RoundDiv(num, den) ==
    LET q == num \div den
        r == num - q * den
    IN  IF 2 * r < den THEN q
        ELSE IF 2 * r > den THEN q + 1
        ELSE IF q % 2 = 0 THEN q ELSE q + 1

CpuDelta(stats) == stats.cpu_total - stats.precpu_total

SystemDelta(stats) == stats.system - stats.presystem

CpuPercent(stats) ==
    IF SystemDelta(stats) > 0
    THEN RoundDiv(CpuDelta(stats) * 10000, SystemDelta(stats))
    ELSE 0

\* the stats samples of the model: every combination of the four counters
StatsSamples ==
    [cpu_total : 0..MaxCounter, precpu_total : 0..MaxCounter,
     system : 0..MaxCounter, presystem : 0..MaxCounter]

(***************************************************************************)
(* The objects of the model.                                               *)
(***************************************************************************)
\* the apps of db.apps (server.py:119-127), and the name of each
Apps == {"app1", "app2"}

AppName(app) == IF app = "app1" THEN "web" ELSE "api"

\* the agent processes
Agents == {"agent1", "agent2"}

\* None
None == 0

\* the deployment ids (server.py:56, a fresh uuid4 each)
DepIds == 1..MaxDeploys

\* the apps whose repository can be cloned and holds a Dockerfile
GoodRepoApps == {"app1"}

\* no handle_deploy task: the command of the deployment reached no agent
\* the entry a deleted key leaves behind in the dict
Dummy == "dummy"

\* the metrics_loop task before it has run: pc is the line it is suspended
\* at, used the size of the dict when the for loop started, pos the next
\* entry, start the keys at the start of the round, sent and failed the keys
\* sampled so far with and without success
NoRound ==
    [pc |-> "none", used |-> 0, pos |-> 1, start |-> {}, sent |-> {}, failed |-> {}]

NoTask ==
    [agent |-> "none", app |-> "none", pc |-> "none", blogs |-> 0, port |-> None,
     session |-> None, warned |-> FALSE]

\* a message of the websocket protocol; a log line that a container wrote
\* carries the number n it has among them, the lines of a deployment carry
\* none
Msg(type, app, dep, status, log, n) ==
    [type |-> type, app_id |-> app, deployment_id |-> dep,
     status |-> status, log |-> log, n |-> n, port |-> None, url |-> None]

VARIABLES
    tagRuns,          \* the image tags computed so far: <<[deployment_id, image_tag]>>
    cpuSample,        \* the last metrics sample: [stats, cpu_percent] or <<>>
    \* ---- control plane (server.py)
    apps,             \* db.apps: app id -> [status, port, url]
    deployments,      \* db.deployments: deployment id (index) -> record
    db_metrics,       \* db.metrics: the app ids it holds a sample of
    active_agents,    \* dict agent_id -> WebSocket, as the sequence of its keys
    log_subscribers,  \* dict app id -> list of queues
    subs,             \* the event_generator of each stream_logs call, with its queue
    \* ---- websocket sessions
    sessions,         \* session id (index) -> [agent, agentSide, serverSide]
    up,               \* session id -> messages agent -> control plane, in flight
    down,             \* session id -> commands control plane -> agent, in flight
    \* ---- agent (agent.py)
    agentPc,          \* position of Agent.connect: connecting, listening, sleeping
    websocket,        \* self.websocket: a session id or None
    waits,            \* the delays slept since the last successful connection
    metricsLoops,     \* number of metrics_loop tasks created and never ended
    dtask,            \* deployment id -> the handle_deploy task of it
    running_containers, \* agent -> app id -> container handle or None
    containers,       \* container (named by its deployment) -> state in the runtime
    followers,        \* the stream_container_logs tasks, by deployment
    key_order,        \* agent -> the entries of its running_containers dict, in
                      \* insertion order: an app id, or Dummy for a deleted entry
    mround,           \* the first metrics_loop task of MainAgent: its position
                      \* and the sampling round it is in
    \* ---- history
    evLost,           \* deployments with a status event dropped on a closed socket
    followed,         \* number of container log lines read so far
    emitted           \* deployment id -> the messages its handle_deploy task sent

pureVars == <<tagRuns, cpuSample>>

serverVars == <<apps, deployments, db_metrics>>

fanVars == <<log_subscribers, subs>>

connVars == <<active_agents, sessions, agentPc, websocket, waits, metricsLoops>>

chanVars == <<up, down>>

taskVars == <<dtask, running_containers, containers, followers, key_order, mround>>

histVars == <<evLost, followed, emitted>>

vars == <<tagRuns, cpuSample, apps, deployments, db_metrics, active_agents, log_subscribers,
          subs, sessions, up, down, agentPc, websocket, waits, metricsLoops,
          dtask, running_containers, containers, followers, key_order,
          mround, evLost, followed, emitted>>

InitPure ==
    /\ tagRuns = <<>>
    /\ cpuSample = <<>>

\* server.py:31-32 and agent.py:43, 50-51; db.apps holds the apps of the model,
\* each as create_app left it (server.py:42-46)
InitSystem ==
    /\ apps = [a \in Apps |-> [status |-> "idle", port |-> None, url |-> None]]
    /\ deployments = <<>>
    /\ db_metrics = {}
    /\ active_agents = <<>>
    /\ log_subscribers = <<>>
    /\ subs = <<>>
    /\ sessions = <<>>
    /\ up = <<>>
    /\ down = <<>>
    /\ agentPc = [a \in Agents |-> "connecting"]
    /\ websocket = [a \in Agents |-> None]
    /\ waits = [a \in Agents |-> <<>>]
    /\ metricsLoops = [a \in Agents |-> 0]
    /\ dtask = [d \in DepIds |-> NoTask]
    /\ running_containers = [a \in Agents |-> [p \in Apps |-> None]]
    /\ containers = [d \in DepIds |-> "none"]
    /\ followers = {}
    /\ key_order = [a \in Agents |-> <<>>]
    /\ mround = NoRound
    /\ evLost = {}
    /\ followed = 0
    /\ emitted = [d \in DepIds |-> <<>>]

Init == InitPure /\ InitSystem

(***************************************************************************)
(* handle_deploy computes the image tag of a deployment (agent.py:166).    *)
(***************************************************************************)
ComputeImageTag(id) ==
    /\ Len(tagRuns) < MaxTagRuns
    /\ \A i \in 1..Len(tagRuns) : tagRuns[i].deployment_id # id
    /\ tagRuns' = Append(tagRuns,
            [deployment_id |-> id, image_tag |-> ImageTag(TagAppName, id)])
    /\ UNCHANGED <<cpuSample, serverVars, fanVars, connVars, chanVars, taskVars, histVars>>

NextTag == \E id \in DeploymentIdStrings : ComputeImageTag(id)

SpecTag == Init /\ [][NextTag]_vars

(***************************************************************************)
(* metrics_loop samples one container (agent.py:281-303).                  *)
(***************************************************************************)
SampleCpu(stats) ==
    /\ cpuSample' = [stats |-> stats, cpu_percent |-> CpuPercent(stats)]
    /\ UNCHANGED <<tagRuns, serverVars, fanVars, connVars, chanVars, taskVars, histVars>>

NextCpu == \E stats \in StatsSamples : SampleCpu(stats)

SpecCpu == Init /\ [][NextCpu]_vars

(***************************************************************************)
(* Helpers on sequences and dicts.                                         *)
(***************************************************************************)
Range(s) == {s[i] : i \in DOMAIN s}

\* list.remove(x): the first occurrence of x goes
RemoveFirst(s, x) ==
    IF \E i \in 1..Len(s) : s[i] = x
    THEN LET i == CHOOSE k \in 1..Len(s) : s[k] = x /\ \A j \in 1..(k - 1) : s[j] # x
         IN  SubSeq(s, 1, i - 1) \o SubSeq(s, i + 1, Len(s))
    ELSE s

\* del d[k] for a dict kept as the sequence of its keys
DelKey(keys, k) == SelectSeq(keys, LAMBDA x : x # k)

(***************************************************************************)
(* The websocket of a session.                                             *)
(***************************************************************************)
\* the agent's end accepts a send (websocket.send raises on a closed socket)
SendOk(a) ==
    /\ websocket[a] # None
    /\ sessions[websocket[a]].agentSide = "open"

\* what the agent sends reaches the handler of the session
Delivers(s) == sessions[s].agentSide = "open" /\ sessions[s].serverSide = "connected"

\* room in the write buffer: a send suspends until the peer drains it
CanSend(a) == SendOk(a) /\ Delivers(websocket[a]) => Len(up[websocket[a]]) < MaxQueue

\* agent.py:100-106  send_message: the exception of a closed socket is logged
\* and the message is dropped
UpAfterSend(a, m) ==
    IF SendOk(a) /\ Delivers(websocket[a])
    THEN [up EXCEPT ![websocket[a]] = Append(@, m)]
    ELSE up

\* the status events of a deployment that a send drops
LostAfterSend(a, m) ==
    IF m.type \in {"status_update", "deployment_complete"}
       /\ ~(SendOk(a) /\ Delivers(websocket[a]))
    THEN evLost \cup {m.deployment_id}
    ELSE evLost

(***************************************************************************)
(* Agent.connect (agent.py:53-77).                                         *)
(***************************************************************************)
\* a retry delay that doubles with each failure and is never capped
DoublingDelay(k) == RETRY_SLEEP * 2 ^ (k - 1)

\* agent.py:75-77: the delay slept after the k-th consecutive failure
RetryDelay(k) == RETRY_SLEEP

\* a finally branch that leaves the session in the registry
KeepRegistered(agents, s) == agents

\* server.py:370-372, the finally of agent_websocket
Unregister(agents, s) == DelKey(agents, s)

\* agent.py:59-73 with server.py:301-305: the handshake succeeds, the control
\* plane registers the session, the agent sends register, starts a metrics
\* loop and listens
Connect(a) ==
    /\ agentPc[a] = "connecting"
    /\ Len(sessions) < MaxSessions
    /\ Len(sessions) + Len(deployments) < MaxLoad
    /\ LET s == Len(sessions) + 1
       IN  /\ sessions' = Append(sessions,
                  [agent |-> a, agentSide |-> "open", serverSide |-> "connected"])
           /\ active_agents' = Append(active_agents, s)
           /\ websocket' = [websocket EXCEPT ![a] = s]
           /\ up' = Append(up, <<Msg("register", None, None, "", "", 0)>>)
           /\ down' = Append(down, <<>>)
    /\ agentPc' = [agentPc EXCEPT ![a] = "listening"]
    /\ waits' = [waits EXCEPT ![a] = <<>>]
    /\ metricsLoops' = [metricsLoops EXCEPT ![a] = @ + 1]
    /\ UNCHANGED <<pureVars, serverVars, fanVars, taskVars, histVars>>

\* a connect loop that gives up after MAX_RETRIES consecutive failures
ConnectFailGivesUp(a) ==
    /\ agentPc[a] = "connecting"
    /\ Len(waits[a]) < MaxFails
    /\ agentPc' = [agentPc EXCEPT ![a] =
                      IF Len(waits[a]) + 1 >= MAX_RETRIES THEN "stopped" ELSE "sleeping"]
    /\ waits' = [waits EXCEPT ![a] = Append(@, RetryDelay(Len(@) + 1))]
    /\ UNCHANGED <<pureVars, serverVars, fanVars, active_agents, sessions, websocket,
                   metricsLoops, chanVars, taskVars, histVars>>

\* agent.py:75-77: websockets.connect raises, the agent sleeps
ConnectFail(a) ==
    /\ agentPc[a] = "connecting"
    /\ Len(waits[a]) < MaxFails
    /\ agentPc' = [agentPc EXCEPT ![a] = "sleeping"]
    /\ waits' = [waits EXCEPT ![a] = Append(@, RetryDelay(Len(@) + 1))]
    /\ UNCHANGED <<pureVars, serverVars, fanVars, active_agents, sessions, websocket,
                   metricsLoops, chanVars, taskVars, histVars>>

\* agent.py:77 and 57: the sleep ends, the loop tries again
WakeUp(a) ==
    /\ agentPc[a] = "sleeping"
    /\ agentPc' = [agentPc EXCEPT ![a] = "connecting"]
    /\ UNCHANGED <<pureVars, serverVars, fanVars, active_agents, sessions, websocket,
                   waits, metricsLoops, chanVars, taskVars, histVars>>

\* agent.py:82, 95-98 and 59: the listen loop ends (the connection closed, or
\* a message was not JSON), the async with closes the socket and the while
\* loop connects again at once; self.websocket keeps the closed socket
SessionEnd(a) ==
    /\ agentPc[a] = "listening"
    /\ sessions' = [sessions EXCEPT ![websocket[a]].agentSide = "closed"]
    /\ down' = [down EXCEPT ![websocket[a]] = <<>>]
    /\ agentPc' = [agentPc EXCEPT ![a] = "connecting"]
    /\ UNCHANGED <<pureVars, serverVars, fanVars, active_agents, websocket, waits,
                   metricsLoops, up, taskVars, histVars>>

(***************************************************************************)
(* agent_websocket (server.py:299-372), one handler per session.           *)
(***************************************************************************)
\* server.py:366-372: receive_json raises WebSocketDisconnect once the
\* messages received before the close are read
Disconnect(s) ==
    /\ sessions[s].serverSide = "connected"
    /\ sessions[s].agentSide = "closed"
    /\ up[s] = <<>>
    /\ sessions' = [sessions EXCEPT ![s].serverSide = "closed"]
    /\ active_agents' = Unregister(active_agents, s)
    /\ UNCHANGED <<pureVars, serverVars, fanVars, agentPc, websocket, waits,
                   metricsLoops, chanVars, taskVars, histVars>>

\* server.py:368-372: the handler ends with another exception (the database
\* call of a branch fails); what it has not read is never read
HandlerError(s) ==
    /\ sessions[s].serverSide = "connected"
    /\ sessions' = [sessions EXCEPT ![s].serverSide = "closed"]
    /\ active_agents' = Unregister(active_agents, s)
    /\ up' = [up EXCEPT ![s] = <<>>]
    /\ down' = [down EXCEPT ![s] = <<>>]
    /\ evLost' = evLost \cup
          {up[s][i].deployment_id : i \in
              {j \in 1..Len(up[s]) :
                  up[s][j].type \in {"status_update", "deployment_complete"}}}
    /\ UNCHANGED <<pureVars, serverVars, fanVars, agentPc, websocket, waits,
                   metricsLoops, taskVars, followed, emitted>>

\* server.py:111-116  readyz: the response, 503 being the HTTPException
Readyz ==
    IF Len(active_agents) = 0
    THEN [status_code |-> 503, agents_count |-> None]
    ELSE [status_code |-> 200, agents_count |-> Len(active_agents)]

\* a log branch that puts the event on the queue of every subscriber
QueuesAfterLogAll(m) ==
    [q \in DOMAIN subs |-> [subs[q] EXCEPT !.queue = Append(@, m)]]

\* server.py:312-317: the log branch puts the event on every queue of the app
QueuesAfterLog(m) ==
    IF m.app_id \in DOMAIN log_subscribers
    THEN [q \in DOMAIN subs |->
            IF q \in Range(log_subscribers[m.app_id])
            THEN [subs[q] EXCEPT !.queue = Append(@, m)]
            ELSE subs[q]]
    ELSE subs

\* an update that leaves the status of a failed app as it is
AppsAfterUnlessFailed(m) ==
    IF m.app_id \notin Apps THEN apps
    ELSE IF m.type = "status_update"
         THEN [apps EXCEPT ![m.app_id].status = m.status]
         ELSE [apps EXCEPT ![m.app_id] =
                  [status |-> IF @.status = "failed" THEN "failed" ELSE "running",
                   port |-> m.port, url |-> m.url]]

\* server.py:323-326, 348-356: db.apps.update_one({"id": app_id}, {"$set": ...})
AppsAfter(m) ==
    IF m.app_id \notin Apps THEN apps
    ELSE IF m.type = "status_update"
         THEN [apps EXCEPT ![m.app_id].status = m.status]
         ELSE [apps EXCEPT ![m.app_id] =
                  [status |-> "running", port |-> m.port, url |-> m.url]]

\* an update that sets the status of every deployment of the event's app
DeploymentsAfterByApp(m) ==
    [d \in DOMAIN deployments |->
        IF deployments[d].app_id = m.app_id
        THEN [deployments[d] EXCEPT !.status = m.status]
        ELSE deployments[d]]

\* server.py:329-334, 358-364: db.deployments.update_one({"id": deployment_id}, ...)
DeploymentsAfter(m) ==
    IF m.deployment_id \notin DOMAIN deployments THEN deployments
    ELSE IF m.type = "status_update"
         THEN [deployments EXCEPT ![m.deployment_id].status = m.status]
         ELSE [deployments EXCEPT ![m.deployment_id].status = "running",
                                  ![m.deployment_id].completed_at = "now"]

\* a handler whose log branch also stores the line in the deployment record
IngestKeepingLogs(s) ==
    /\ sessions[s].serverSide = "connected"
    /\ up[s] # <<>>
    /\ LET m == Head(up[s])
       IN  /\ up' = [up EXCEPT ![s] = Tail(@)]
           /\ subs' = IF m.type = "log" THEN QueuesAfterLog(m) ELSE subs
           /\ apps' = IF m.type \in {"status_update", "deployment_complete"}
                      THEN AppsAfter(m) ELSE apps
           /\ deployments' =
                 IF m.type \in {"status_update", "deployment_complete"}
                 THEN DeploymentsAfter(m)
                 ELSE IF m.type = "log" /\ m.deployment_id \in DOMAIN deployments
                      THEN [deployments EXCEPT
                               ![m.deployment_id].build_logs = Append(@, m.log)]
                      ELSE deployments
           /\ db_metrics' = IF m.type = "metrics"
                            THEN db_metrics \cup {m.app_id} ELSE db_metrics
    /\ UNCHANGED <<pureVars, log_subscribers, connVars, down, taskVars, histVars>>

\* server.py:309-364: the handler of session s reads one message and runs
\* the branch of its type; a register message has no branch
Ingest(s) ==
    /\ sessions[s].serverSide = "connected"
    /\ up[s] # <<>>
    /\ LET m == Head(up[s])
       IN  /\ up' = [up EXCEPT ![s] = Tail(@)]
           /\ subs' = IF m.type = "log" THEN QueuesAfterLog(m) ELSE subs
           /\ apps' = IF m.type \in {"status_update", "deployment_complete"}
                      THEN AppsAfter(m) ELSE apps
           /\ deployments' = IF m.type \in {"status_update", "deployment_complete"}
                             THEN DeploymentsAfter(m) ELSE deployments
           /\ db_metrics' = IF m.type = "metrics"
                            THEN db_metrics \cup {m.app_id} ELSE db_metrics
    /\ UNCHANGED <<pureVars, log_subscribers, connVars, down, taskVars, histVars>>

\* server.py:309-310: the peer of session s sends a status_update event of its
\* own making: any app id, known or not, with or without a deployment id
PeerStatuses == {"building", "failed", "stopped"}

PeerSend(s) ==
    /\ sessions[s].serverSide = "connected"
    /\ Len(up[s]) < MaxQueue
    /\ \E app \in Apps \cup {"ghost"} : \E dep \in {None} \cup (1..MaxDeploys) :
       \E status \in PeerStatuses :
          up' = [up EXCEPT ![s] = Append(@, Msg("status_update", app, dep, status, "", 0))]
    /\ UNCHANGED <<pureVars, serverVars, fanVars, connVars, down, taskVars, histVars>>

\* server.py:309-310: the peer of session s sends a deployment_complete event
\* of its own making, with a port and a url or with neither
PeerComplete(s) ==
    /\ sessions[s].serverSide = "connected"
    /\ Len(up[s]) < MaxQueue
    /\ \E app \in Apps \cup {"ghost"} : \E dep \in {None} \cup (1..MaxDeploys) :
       \E port \in {None, 32768} :
          up' = [up EXCEPT ![s] = Append(@,
                    [Msg("deployment_complete", app, dep, "", "", 0)
                        EXCEPT !.port = port,
                               !.url = IF port # None THEN "url" ELSE None])]
    /\ UNCHANGED <<pureVars, serverVars, fanVars, connVars, down, taskVars, histVars>>

(***************************************************************************)
(* trigger_deployment (server.py:164-197).                                 *)
(***************************************************************************)
\* a routing that keeps to the newest session, registered or not
StaleTarget == IF Len(sessions) = 0 THEN None ELSE Len(sessions)

\* a routing that skips the registered sessions whose socket is closed
FirstLiveTarget ==
    LET live == {i \in DOMAIN active_agents : sessions[active_agents[i]].agentSide = "open"}
    IN  IF live = {} THEN None
        ELSE active_agents[CHOOSE i \in live : \A j \in live : i <= j]

\* server.py:184-185: the websocket the command goes to
RouteTarget == IF Len(active_agents) = 0 THEN None ELSE active_agents[1]

\* server.py:186-195: send_json; a socket whose peer is gone takes no command
DownAfterRoute(cmd) ==
    IF RouteTarget # None /\ sessions[RouteTarget].agentSide = "open"
    THEN [down EXCEPT ![RouteTarget] = Append(@, cmd)]
    ELSE down

trigger_deployment(app) ==
    /\ Len(deployments) < MaxDeploys
    /\ Len(sessions) + Len(deployments) < MaxLoad
    /\ RouteTarget # None /\ sessions[RouteTarget].agentSide = "open"
          => Len(down[RouteTarget]) < MaxQueue
    /\ LET d == Len(deployments) + 1
       IN  /\ deployments' = Append(deployments,
                  [app_id |-> app, status |-> "pending", build_logs |-> <<>>,
                   completed_at |-> None])
           /\ apps' = [apps EXCEPT ![app].status = "building"]
           /\ down' = DownAfterRoute(
                  [type |-> "deploy", deployment_id |-> d, app_id |-> app,
                   app_name |-> AppName(app)])
    /\ UNCHANGED <<pureVars, db_metrics, fanVars, connVars, up, taskVars, histVars>>

(***************************************************************************)
(* stream_logs.event_generator (server.py:375-390).                        *)
(***************************************************************************)
\* server.py:378-382: a new queue, appended to the list of the app
Subscribe(app) ==
    /\ Len(subs) < MaxSubs
    /\ LET q == Len(subs) + 1
       IN  /\ subs' = Append(subs, [app |-> app, pc |-> "get", queue |-> <<>>,
                                     received |-> <<>>])
           /\ log_subscribers' =
                 [k \in DOMAIN log_subscribers \cup {app} |->
                     IF k = app
                     THEN (IF app \in DOMAIN log_subscribers
                           THEN log_subscribers[app] ELSE <<>>) \o <<q>>
                     ELSE log_subscribers[k]]
    /\ UNCHANGED <<pureVars, serverVars, connVars, chanVars, taskVars, histVars>>

\* server.py:386-387: queue.get() returns an event and the generator yields it
SubGet(q) ==
    /\ subs[q].pc = "get"
    /\ subs[q].queue # <<>>
    /\ subs' = [subs EXCEPT ![q].queue = Tail(@),
                            ![q].received = Append(@, Head(subs[q].queue)),
                            ![q].pc = "yield"]
    /\ UNCHANGED <<pureVars, serverVars, log_subscribers, connVars, chanVars,
                   taskVars, histVars>>

\* server.py:385-386: the response asks for the next event
SubResume(q) ==
    /\ subs[q].pc = "yield"
    /\ subs' = [subs EXCEPT ![q].pc = "get"]
    /\ UNCHANGED <<pureVars, serverVars, log_subscribers, connVars, chanVars,
                   taskVars, histVars>>

\* an except branch that drops every queue of the app
CancelDropsAll(q) ==
    IF subs[q].app \in DOMAIN log_subscribers
    THEN [log_subscribers EXCEPT ![subs[q].app] = <<>>]
    ELSE log_subscribers

\* server.py:388-390: the list of the app after the generator's except branch
SubscribersAfterCancel(q) ==
    LET app == subs[q].app
    IN  IF app \in DOMAIN log_subscribers /\ q \in Range(log_subscribers[app])
        THEN [log_subscribers EXCEPT ![app] = RemoveFirst(@, q)]
        ELSE log_subscribers

\* server.py:386, 388-390: the consumer is cancelled while the generator waits
\* in queue.get(): CancelledError is raised there
SubCancel(q) ==
    /\ subs[q].pc = "get"
    /\ log_subscribers' = SubscribersAfterCancel(q)
    /\ subs' = [subs EXCEPT ![q].pc = "cancelled"]
    /\ UNCHANGED <<pureVars, serverVars, connVars, chanVars, taskVars, histVars>>

\* server.py:387-388: the generator is closed while suspended in yield:
\* GeneratorExit is raised there, which the except branch does not catch
SubClose(q) ==
    /\ subs[q].pc = "yield"
    /\ subs' = [subs EXCEPT ![q].pc = "closed"]
    /\ UNCHANGED <<pureVars, serverVars, log_subscribers, connVars, chanVars,
                   taskVars, histVars>>

(***************************************************************************)
(* The container runtime of an agent's host.  A container is named by the  *)
(* deployment that ran it; its state is none (never created), created      *)
(* (created, never started), running, exited or removed.                   *)
(***************************************************************************)
Exists(c) == containers[c] \in {"created", "running", "exited"}

\* agent.py:198  name=f"dsi-{app_name}-{app_id[:8]}"; an app id of the model
\* has fewer than 8 characters, app_id[:8] is all of it
ContainerName(app_name, app_id) == <<"dsi", app_name, app_id>>

NameOf(c) == ContainerName(AppName(dtask[c].app), dtask[c].app)

\* a runtime that lets two containers share a name
NameNeverTaken(a, d) == FALSE

\* agent.py:195-202: the runtime refuses to create a container under a name
\* that a container of the host has
NameTaken(a, d) ==
    \E c \in DepIds \ {d} :
        dtask[c].agent = a /\ Exists(c) /\ NameOf(c) = NameOf(d)

\* container.stop(timeout=10) returned: a running container has exited
Stopped(c) == IF containers[c] = "running" THEN "exited" ELSE containers[c]

\* container.stop(timeout=10); container.remove(): [state, done], the state the
\* two calls leave the container in and whether both returned.  stop raises
\* (the state stays), or returns and remove raises, or both return; both
\* raise for a container that is gone
StopRemoveOutcomes(c) ==
    IF Exists(c)
    THEN {[state |-> containers[c], done |-> FALSE],
          [state |-> Stopped(c), done |-> FALSE],
          [state |-> "removed", done |-> TRUE]}
    ELSE {[state |-> containers[c], done |-> FALSE]}

\* container.restart(timeout=10)
RestartOutcomes(c) ==
    IF Exists(c) THEN {"running", containers[c]} ELSE {containers[c]}

\* agent.py:204  running_containers[app_id] = container: a new key goes to the
\* end of the dict, a key the dict has keeps its place
KeysAfterSet(a, app) ==
    IF \E i \in DOMAIN key_order[a] : key_order[a][i] = app
    THEN key_order
    ELSE [key_order EXCEPT ![a] = Append(@, app)]

\* agent.py:258  del running_containers[app_id]: the entry stays as a dummy
KeysAfterDel(a, app) ==
    [key_order EXCEPT ![a] =
        [i \in DOMAIN @ |-> IF @[i] = app THEN Dummy ELSE @[i]]]

\* len(running_containers)
DictSize(a) ==
    Cardinality({i \in DOMAIN key_order[a] : key_order[a][i] # Dummy})

(***************************************************************************)
(* Agent.listen_for_commands (agent.py:79-98).                             *)
(***************************************************************************)
\* agent.py:82-89: a deploy command is read, create_task(handle_deploy(data))
RecvDeploy(a) ==
    /\ agentPc[a] = "listening"
    /\ down[websocket[a]] # <<>>
    /\ LET cmd == Head(down[websocket[a]])
       IN  dtask' = [dtask EXCEPT ![cmd.deployment_id] =
                        [agent |-> a, app |-> cmd.app_id, pc |-> "new",
                         blogs |-> 0, port |-> None,
                         session |-> websocket[a], warned |-> FALSE]]
    /\ down' = [down EXCEPT ![websocket[a]] = Tail(@)]
    /\ UNCHANGED <<pureVars, serverVars, fanVars, connVars, up, running_containers,
                   containers, followers, key_order, mround, histVars>>

(***************************************************************************)
(* Agent.handle_deploy (agent.py:127-237).  pc is the line of the await    *)
(* the task is suspended in; an action runs from there to the next await.  *)
(***************************************************************************)
\* agent.py:108-116: a log text is <<line, value>>, value being what the
\* f-string of the line formats, or ""
LogMsg(d, text) == Msg("log", dtask[d].app, d, "", text, 0)

LogLine(d, line) == LogMsg(d, <<line, "">>)

\* agent.py:215: str(host_port) in the f-string
PortText(port) == IF port = None THEN "None" ELSE "32768"

StatusMsg(d, status) == Msg("status_update", dtask[d].app, d, status, "", 0)

\* agent.py:219-226
CompleteMsg(d) ==
    [Msg("deployment_complete", dtask[d].app, d, "", "", 0)
        EXCEPT !.port = dtask[d].port,
               !.url = IF dtask[d].port # None THEN "url" ELSE None]

\* the task sends m and suspends, its frame then being task
EmitAs(d, m, task) ==
    /\ CanSend(dtask[d].agent)
    /\ up' = UpAfterSend(dtask[d].agent, m)
    /\ evLost' = LostAfterSend(dtask[d].agent, m)
    /\ emitted' = [emitted EXCEPT ![d] = Append(@, m)]
    /\ dtask' = [dtask EXCEPT ![d] = task]
    /\ UNCHANGED <<pureVars, serverVars, fanVars, connVars, down, followers, followed>>

\* the task sends m and suspends at line pc
Emit(d, m, pc) == EmitAs(d, m, [dtask[d] EXCEPT !.pc = pc])

\* an except branch that sends the error and lets the deployment go on
LogAndGoOn(d, error) == Emit(d, LogMsg(d, <<"Deployment failed", error>>), "158")

\* agent.py:233-236: the except branch logs the error and sends it
Raise(d, error) == Emit(d, LogMsg(d, <<"Deployment failed", error>>), "236")

\* agent.py:137
DeployStart(d) ==
    /\ dtask[d].pc = "new"
    /\ Emit(d, StatusMsg(d, "building"), "137")
    /\ UNCHANGED <<running_containers, containers, key_order, mround>>

\* agent.py:138
Deploy137(d) ==
    /\ dtask[d].pc = "137"
    /\ Emit(d, LogLine(d, "Starting deployment"), "138")
    /\ UNCHANGED <<running_containers, containers, key_order, mround>>

\* agent.py:141-147: the workspace is made, or rmtree or mkdir raises
Deploy138(d) ==
    /\ dtask[d].pc = "138"
    /\ \/ Emit(d, LogLine(d, "Cloning repository"), "147")
       \/ Raise(d, "workspace")
    /\ UNCHANGED <<running_containers, containers, key_order, mround>>

\* agent.py:148-158: git clone
Deploy147(d) ==
    /\ dtask[d].pc = "147"
    /\ \/ Emit(d, LogLine(d, "Repository cloned successfully"), "158")
       \/ /\ dtask[d].app \notin GoodRepoApps
          /\ Raise(d, "Git clone failed")
    /\ UNCHANGED <<running_containers, containers, key_order, mround>>

\* agent.py:161-167: the Dockerfile check
Deploy158(d) ==
    /\ dtask[d].pc = "158"
    /\ \/ Emit(d, LogLine(d, "Building Docker image"), "167")
       \/ /\ dtask[d].app \notin GoodRepoApps
          /\ Raise(d, "Dockerfile not found in repository")
    /\ UNCHANGED <<running_containers, containers, key_order, mround>>

\* agent.py:175-181: the next output line of the build, or the end of them
BuildOutput(d) ==
    \/ /\ dtask[d].blogs < MaxBuildLogs
       /\ EmitAs(d, LogLine(d, "build output"),
                 [dtask[d] EXCEPT !.pc = "179", !.blogs = @ + 1])
    \/ Emit(d, LogLine(d, "Docker image built successfully"), "181")

\* agent.py:169-181: docker_client.images.build
Deploy167(d) ==
    /\ dtask[d].pc = "167"
    /\ \/ BuildOutput(d)
       \/ Raise(d, "build")
    /\ UNCHANGED <<running_containers, containers, key_order, mround>>

\* agent.py:175-181: the loop over the build output
Deploy179(d) ==
    /\ dtask[d].pc = "179"
    /\ BuildOutput(d)
    /\ UNCHANGED <<running_containers, containers, key_order, mround>>

\* agent.py:184-193: the tracked container is stopped and removed, a failure
\* of either is logged (warned); the map keeps the handle
Deploy181(d) ==
    /\ dtask[d].pc = "181"
    /\ LET old == running_containers[dtask[d].agent][dtask[d].app]
       IN  IF old = None
           THEN /\ UNCHANGED containers
                /\ Emit(d, LogLine(d, "Starting container..."), "193")
           ELSE \E o \in StopRemoveOutcomes(old) :
                   /\ containers' = [containers EXCEPT ![old] = o.state]
                   /\ EmitAs(d, LogLine(d, "Starting container..."),
                             [dtask[d] EXCEPT !.pc = "193", !.warned = ~o.done])
    /\ UNCHANGED <<running_containers, key_order, mround>>

\* agent.py:195-215: containers.run raises (nothing created, or created and
\* not started), or the container runs and is tracked; then reload raises or
\* the port is read
Deploy193(d) ==
    /\ dtask[d].pc = "193"
    /\ \/ /\ Raise(d, "run")
          /\ UNCHANGED <<running_containers, containers, key_order, mround>>
       \/ /\ ~NameTaken(dtask[d].agent, d)
          /\ Raise(d, "start")
          /\ containers' = [containers EXCEPT ![d] = "created"]
          /\ UNCHANGED <<running_containers, key_order, mround>>
       \/ /\ ~NameTaken(dtask[d].agent, d)
          /\ containers' = [containers EXCEPT ![d] = "running"]
          /\ running_containers' =
                [running_containers EXCEPT ![dtask[d].agent][dtask[d].app] = d]
          /\ key_order' = KeysAfterSet(dtask[d].agent, dtask[d].app)
          /\ UNCHANGED mround
          /\ \/ Raise(d, "reload")
             \/ \E port \in {None, 32768} :
                   EmitAs(d, LogMsg(d, <<"Container started on port", PortText(port)>>),
                          [dtask[d] EXCEPT !.pc = "215", !.port = port])

\* agent.py:216
Deploy215(d) ==
    /\ dtask[d].pc = "215"
    /\ Emit(d, LogLine(d, "Application URL"), "216")
    /\ UNCHANGED <<running_containers, containers, key_order, mround>>

\* agent.py:219-226
Deploy216(d) ==
    /\ dtask[d].pc = "216"
    /\ Emit(d, CompleteMsg(d), "219")
    /\ UNCHANGED <<running_containers, containers, key_order, mround>>

\* agent.py:228
Deploy219(d) ==
    /\ dtask[d].pc = "219"
    /\ Emit(d, StatusMsg(d, "running"), "228")
    /\ UNCHANGED <<running_containers, containers, key_order, mround>>

\* agent.py:231: create_task(stream_container_logs(...)), the task ends
Deploy228(d) ==
    /\ dtask[d].pc = "228"
    /\ dtask' = [dtask EXCEPT ![d].pc = "done", ![d].blogs = 0, ![d].port = None,
                              ![d].warned = FALSE]
    /\ followers' = followers \cup {d}
    /\ UNCHANGED <<pureVars, serverVars, fanVars, connVars, chanVars,
                   running_containers, containers, key_order, mround, histVars>>

\* an except branch that sends failed and starts the deployment again
Deploy236Retry(d) ==
    /\ dtask[d].pc = "236"
    /\ EmitAs(d, StatusMsg(d, "failed"),
              [dtask[d] EXCEPT !.pc = "new", !.blogs = 0, !.port = None,
                               !.warned = FALSE])
    /\ UNCHANGED <<running_containers, containers, key_order, mround>>

\* agent.py:237, the last statement of the except branch
Deploy236(d) ==
    /\ dtask[d].pc = "236"
    /\ EmitAs(d, StatusMsg(d, "failed"),
              [dtask[d] EXCEPT !.pc = "done", !.blogs = 0, !.port = None,
                               !.warned = FALSE])
    /\ UNCHANGED <<running_containers, containers, key_order, mround>>

(***************************************************************************)
(* Agent.stream_container_logs (agent.py:239-247).                         *)
(***************************************************************************)
\* agent.py:242-245: the container wrote a line, send_log forwards it
FollowerLog(d) ==
    /\ d \in followers
    /\ containers[d] = "running"
    /\ followed < MaxLogs
    /\ CanSend(dtask[d].agent)
    /\ up' = UpAfterSend(dtask[d].agent,
                          Msg("log", dtask[d].app, d, "", <<"container output", "">>, followed + 1))
    /\ followed' = followed + 1
    /\ UNCHANGED <<pureVars, serverVars, fanVars, connVars, down, taskVars, evLost,
                   emitted>>

\* agent.py:242: the stream ends with the container
FollowerEnd(d) ==
    /\ d \in followers
    /\ containers[d] # "running"
    /\ followers' = followers \ {d}
    /\ UNCHANGED <<pureVars, serverVars, fanVars, connVars, chanVars, dtask,
                   running_containers, containers, key_order, mround, histVars>>

(***************************************************************************)
(* Agent.handle_stop and Agent.handle_restart (agent.py:249-273).  They    *)
(* hold no await: the command is read (agent.py:90-93) and the task runs   *)
(* as one step.  server.py sends neither command; the peer of the          *)
(* websocket does.                                                         *)
(***************************************************************************)
\* a handle_stop that reports the stop to the control plane
handle_stop_reporting(a, app) ==
    /\ agentPc[a] = "listening"
    /\ running_containers[a][app] # None
    /\ LET c == running_containers[a][app]
       IN  \E o \in StopRemoveOutcomes(c) :
              /\ containers' = [containers EXCEPT ![c] = o.state]
              /\ running_containers' =
                    IF o.done
                    THEN [running_containers EXCEPT ![a][app] = None]
                    ELSE running_containers
              /\ key_order' = IF o.done THEN KeysAfterDel(a, app) ELSE key_order
              /\ up' = IF o.done
                       THEN UpAfterSend(a, Msg("status_update", app, None, "stopped", "", 0))
                       ELSE up
    /\ UNCHANGED <<pureVars, serverVars, fanVars, connVars, down, dtask,
                   followers, mround, histVars>>

handle_stop(a, app) ==
    /\ agentPc[a] = "listening"
    /\ running_containers[a][app] # None
    /\ LET c == running_containers[a][app]
       IN  \E o \in StopRemoveOutcomes(c) :
              /\ containers' = [containers EXCEPT ![c] = o.state]
              /\ running_containers' =
                    IF o.done
                    THEN [running_containers EXCEPT ![a][app] = None]
                    ELSE running_containers
              /\ key_order' = IF o.done THEN KeysAfterDel(a, app) ELSE key_order
    /\ UNCHANGED <<pureVars, serverVars, fanVars, connVars, chanVars, dtask,
                   followers, mround, histVars>>

handle_restart(a, app) ==
    /\ agentPc[a] = "listening"
    /\ running_containers[a][app] # None
    /\ \E st \in RestartOutcomes(running_containers[a][app]) :
          containers' = [containers EXCEPT ![running_containers[a][app]] = st]
    /\ UNCHANGED <<pureVars, serverVars, fanVars, connVars, chanVars, dtask,
                   running_containers, followers, key_order, mround, histVars>>

(***************************************************************************)
(* Agent.metrics_loop (agent.py:275-311), the first loop that MainAgent    *)
(* creates.  A round is one run of the for loop over                       *)
(* running_containers.items(); the task suspends at the send of a sample   *)
(* (agent.py:294) and at the sleep after the round (agent.py:307, or 311   *)
(* when the round raised).                                                 *)
(***************************************************************************)
\* agent.py:281-292: container.reload() and container.stats() raise for a
\* container that is gone and may raise for one that exists
SampleOutcomes(c) == IF Exists(c) THEN {TRUE, FALSE} ELSE {FALSE}

\* agent.py:279: next() of the iterator raises RuntimeError when the size of
\* the dict is not the size it had when the for loop started
SizeChanged(a) == DictSize(a) # mround.used

\* agent.py:279-305: the for loop from entry r.pos on, up to its next await.
\* A sample that raises is logged (agent.py:304-305) and the loop goes on; a
\* sample that succeeds is sent (pc 294); after the last entry the task
\* sleeps (pc 307)
RECURSIVE Scan(_, _)
Scan(a, r) ==
    LET rest == {i \in r.pos..Len(key_order[a]) : key_order[a][i] # Dummy}
    IN  IF rest = {}
        THEN {[r EXCEPT !.pc = "307"]}
        ELSE LET p == CHOOSE i \in rest : \A j \in rest : i <= j
                 app == key_order[a][p]
             IN  UNION {IF ok
                        THEN {[r EXCEPT !.pc = "294", !.pos = p + 1,
                                        !.sent = @ \cup {app}]}
                        ELSE Scan(a, [r EXCEPT !.pos = p + 1,
                                               !.failed = @ \cup {app}])
                           : ok \in SampleOutcomes(running_containers[a][app])}

\* the loop runs from r to its next await; a sample goes out by send_message
MetricsRun(a, r) ==
    \E n \in Scan(a, r) :
        /\ mround' = n
        /\ IF n.pc = "294"
           THEN /\ CanSend(a)
                /\ up' = UpAfterSend(a, Msg("metrics", key_order[a][n.pos - 1],
                                            None, "", "", 0))
           ELSE UNCHANGED up
        /\ UNCHANGED <<pureVars, serverVars, fanVars, connVars, down, dtask,
                       running_containers, containers, followers, key_order,
                       histVars>>

\* agent.py:277-279: the task runs for the first time, or its sleep is over:
\* a round starts
MetricsRound(a) ==
    /\ \/ mround.pc = "none" /\ metricsLoops[a] >= 1
       \/ mround.pc \in {"307", "311"}
    /\ MetricsRun(a, [pc |-> "279", used |-> DictSize(a), pos |-> 1,
                      start |-> {app \in Apps : running_containers[a][app] # None},
                      sent |-> {}, failed |-> {}])

\* agent.py:294-303, 279, 309-311: the send returns and the for loop asks for
\* the next entry; RuntimeError ends the round in the outer except
MetricsResume(a) ==
    /\ mround.pc = "294"
    /\ IF SizeChanged(a)
       THEN /\ mround' = [mround EXCEPT !.pc = "311"]
            /\ UNCHANGED <<pureVars, serverVars, fanVars, connVars, chanVars, dtask,
                           running_containers, containers, followers, key_order,
                           histVars>>
       ELSE MetricsRun(a, mround)

(***************************************************************************)
(* The system: the control plane and one agent that deploys.               *)
(***************************************************************************)
\* the agent of Spec
MainAgent == "agent1"

\* the apps deployed in Spec
DeployedApps == {"app1"}

DeployStep(d) ==
    \/ DeployStart(d)
    \/ Deploy137(d)
    \/ Deploy138(d)
    \/ Deploy147(d)
    \/ Deploy158(d)
    \/ Deploy167(d)
    \/ Deploy179(d)
    \/ Deploy181(d)
    \/ Deploy193(d)
    \/ Deploy215(d)
    \/ Deploy216(d)
    \/ Deploy219(d)
    \/ Deploy228(d)
    \/ Deploy236(d)

Next ==
    \/ Connect(MainAgent)
    \/ SessionEnd(MainAgent)
    \/ \E s \in DOMAIN sessions : Disconnect(s)
    \/ \E s \in DOMAIN sessions : HandlerError(s)
    \/ \E s \in DOMAIN sessions : Ingest(s)
    \/ \E app \in DeployedApps : trigger_deployment(app)
    \/ RecvDeploy(MainAgent)
    \/ \E d \in DepIds : DeployStep(d)

Spec == Init /\ [][Next]_vars

(***************************************************************************)
(* The connection layer alone: the agents connect, fail, sleep and lose    *)
(* their sessions; the control plane registers and unregisters them.       *)
(***************************************************************************)
NextConn ==
    \/ \E a \in Agents : Connect(a)
    \/ \E a \in Agents : ConnectFail(a)
    \/ \E a \in Agents : WakeUp(a)
    \/ \E a \in Agents : SessionEnd(a)
    \/ \E s \in DOMAIN sessions : Disconnect(s)
    \/ \E s \in DOMAIN sessions : HandlerError(s)
    \/ \E s \in DOMAIN sessions : Ingest(s)

SpecConn == Init /\ [][NextConn]_vars

(***************************************************************************)
(* The control plane with one session whose peer sends status_update       *)
(* events of every shape, and deployments triggered meanwhile.             *)
(***************************************************************************)
NextIngest ==
    \/ Connect(MainAgent)
    \/ \E app \in Apps : trigger_deployment(app)
    \/ RecvDeploy(MainAgent)
    \/ \E s \in DOMAIN sessions : PeerSend(s)
    \/ \E s \in DOMAIN sessions : Ingest(s)

SpecIngest == Init /\ [][NextIngest]_vars

\* the same, the peer sending deployment_complete events as well
NextComplete ==
    \/ NextIngest
    \/ \E s \in DOMAIN sessions : PeerComplete(s)

SpecComplete == Init /\ [][NextComplete]_vars

(***************************************************************************)
(* Two agents that connect, fail and reconnect while deployments are       *)
(* triggered.                                                              *)
(***************************************************************************)
NextRoute ==
    \/ NextConn
    \/ \E app \in Apps : trigger_deployment(app)
    \/ \E a \in Agents : RecvDeploy(a)

SpecRoute == Init /\ [][NextRoute]_vars

(***************************************************************************)
(* The connect loop of one agent under fairness: a sleep ends              *)
(* (agent.py:77), and a connection attempt that can succeed for good does  *)
(* succeed.                                                                *)
(***************************************************************************)
NextRetry ==
    \/ Connect(MainAgent)
    \/ ConnectFail(MainAgent)
    \/ WakeUp(MainAgent)
    \/ SessionEnd(MainAgent)
    \/ \E s \in DOMAIN sessions : Disconnect(s)
    \/ \E s \in DOMAIN sessions : HandlerError(s)
    \/ \E s \in DOMAIN sessions : Ingest(s)

SpecRetry ==
    /\ Init /\ [][NextRetry]_vars
    /\ WF_vars(Connect(MainAgent))
    /\ WF_vars(WakeUp(MainAgent))

(***************************************************************************)
(* One agent that handles deploy, stop and restart commands for one app,   *)
(* the handle_deploy tasks of two deployments running concurrently.        *)
(***************************************************************************)
NextAgent ==
    \/ Connect(MainAgent)
    \/ \E s \in DOMAIN sessions : Ingest(s)
    \/ \E app \in DeployedApps : trigger_deployment(app)
    \/ RecvDeploy(MainAgent)
    \/ \E d \in DepIds : DeployStep(d)
    \/ \E app \in DeployedApps : handle_stop(MainAgent, app)
    \/ \E app \in DeployedApps : handle_restart(MainAgent, app)

SpecAgent == Init /\ [][NextAgent]_vars

(***************************************************************************)
(* One agent that deploys both apps, the repository of app2 being one that *)
(* cannot be cloned or holds no Dockerfile.                                *)
(***************************************************************************)
NextDeploy ==
    \/ Connect(MainAgent)
    \/ \E s \in DOMAIN sessions : Ingest(s)
    \/ \E app \in Apps : trigger_deployment(app)
    \/ RecvDeploy(MainAgent)
    \/ \E d \in DepIds : DeployStep(d)

SpecDeploy == Init /\ [][NextDeploy]_vars

(***************************************************************************)
(* The log fan-out.  It starts where a first deployment of app1 has ended: *)
(* the agent is connected, the container runs and stream_container_logs    *)
(* follows it.                                                             *)
(***************************************************************************)
\* agent.py:137-228: what the handle_deploy task of that deployment sent, the
\* build having written no line
FirstDeployment ==
    <<Msg("status_update", "app1", 1, "building", "", 0),
      Msg("log", "app1", 1, "", <<"Starting deployment", "">>, 0),
      Msg("log", "app1", 1, "", <<"Cloning repository", "">>, 0),
      Msg("log", "app1", 1, "", <<"Repository cloned successfully", "">>, 0),
      Msg("log", "app1", 1, "", <<"Building Docker image", "">>, 0),
      Msg("log", "app1", 1, "", <<"Docker image built successfully", "">>, 0),
      Msg("log", "app1", 1, "", <<"Starting container...", "">>, 0),
      Msg("log", "app1", 1, "", <<"Container started on port", "32768">>, 0),
      Msg("log", "app1", 1, "", <<"Application URL", "">>, 0),
      [Msg("deployment_complete", "app1", 1, "", "", 0)
          EXCEPT !.port = 32768, !.url = "url"],
      Msg("status_update", "app1", 1, "running", "", 0)>>

InitFanout ==
    /\ InitPure
    /\ apps = [a \in Apps |->
                 IF a = "app1"
                 THEN [status |-> "running", port |-> 32768, url |-> "url"]
                 ELSE [status |-> "idle", port |-> None, url |-> None]]
    /\ deployments = <<[app_id |-> "app1", status |-> "running", build_logs |-> <<>>,
                        completed_at |-> "now"]>>
    /\ db_metrics = {}
    /\ active_agents = <<1>>
    /\ log_subscribers = <<>>
    /\ subs = <<>>
    /\ sessions = <<[agent |-> MainAgent, agentSide |-> "open", serverSide |-> "connected"]>>
    /\ up = <<<<>>>>
    /\ down = <<<<>>>>
    /\ agentPc = [a \in Agents |-> IF a = MainAgent THEN "listening" ELSE "connecting"]
    /\ websocket = [a \in Agents |-> IF a = MainAgent THEN 1 ELSE None]
    /\ waits = [a \in Agents |-> <<>>]
    /\ metricsLoops = [a \in Agents |-> IF a = MainAgent THEN 1 ELSE 0]
    /\ dtask = [d \in DepIds |->
                  IF d = 1
                  THEN [agent |-> MainAgent, app |-> "app1", pc |-> "done",
                        blogs |-> 0, port |-> None, session |-> 1, warned |-> FALSE]
                  ELSE NoTask]
    /\ running_containers =
          [a \in Agents |-> [p \in Apps |-> IF a = MainAgent /\ p = "app1" THEN 1 ELSE None]]
    /\ containers = [d \in DepIds |-> IF d = 1 THEN "running" ELSE "none"]
    /\ followers = {1}
    /\ key_order = [a \in Agents |-> IF a = MainAgent THEN <<"app1">> ELSE <<>>]
    /\ mround = NoRound
    /\ evLost = {}
    /\ followed = 0
    /\ emitted = [d \in DepIds |-> IF d = 1 THEN FirstDeployment ELSE <<>>]

NextFanout ==
    \/ Connect(MainAgent)
    \/ SessionEnd(MainAgent)
    \/ \E s \in DOMAIN sessions : Disconnect(s)
    \/ \E s \in DOMAIN sessions : Ingest(s)
    \/ \E d \in DepIds : FollowerLog(d)
    \/ \E d \in DepIds : FollowerEnd(d)
    \/ \E app \in DeployedApps : handle_stop(MainAgent, app)
    \/ \E app \in Apps : Subscribe(app)
    \/ \E q \in DOMAIN subs : SubGet(q)
    \/ \E q \in DOMAIN subs : SubResume(q)
    \/ \E q \in DOMAIN subs : SubCancel(q)
    \/ \E q \in DOMAIN subs : SubClose(q)

SpecFanout == InitFanout /\ [][NextFanout]_vars

(***************************************************************************)
(* The metrics loop.  It starts where the deployments of app1 and of app2  *)
(* have ended: both containers run and are tracked, app1 first; the peer   *)
(* of the websocket sends stop and restart commands.                       *)
(***************************************************************************)
\* agent.py:137-228: what the handle_deploy task of the deployment of app2 sent
SecondDeployment ==
    [i \in DOMAIN FirstDeployment |->
        [FirstDeployment[i] EXCEPT !.app_id = "app2", !.deployment_id = 2]]

InitMetrics ==
    /\ InitPure
    /\ apps = [a \in Apps |-> [status |-> "running", port |-> 32768, url |-> "url"]]
    /\ deployments =
          <<[app_id |-> "app1", status |-> "running", build_logs |-> <<>>,
             completed_at |-> "now"],
            [app_id |-> "app2", status |-> "running", build_logs |-> <<>>,
             completed_at |-> "now"]>>
    /\ db_metrics = {}
    /\ active_agents = <<1>>
    /\ log_subscribers = <<>>
    /\ subs = <<>>
    /\ sessions = <<[agent |-> MainAgent, agentSide |-> "open", serverSide |-> "connected"]>>
    /\ up = <<<<>>>>
    /\ down = <<<<>>>>
    /\ agentPc = [a \in Agents |-> IF a = MainAgent THEN "listening" ELSE "connecting"]
    /\ websocket = [a \in Agents |-> IF a = MainAgent THEN 1 ELSE None]
    /\ waits = [a \in Agents |-> <<>>]
    /\ metricsLoops = [a \in Agents |-> IF a = MainAgent THEN 1 ELSE 0]
    /\ dtask = [d \in DepIds |->
                  IF d \in {1, 2}
                  THEN [agent |-> MainAgent, app |-> IF d = 1 THEN "app1" ELSE "app2",
                        pc |-> "done", blogs |-> 0, port |-> None, session |-> 1,
                        warned |-> FALSE]
                  ELSE NoTask]
    /\ running_containers =
          [a \in Agents |->
              [p \in Apps |-> IF a # MainAgent THEN None
                              ELSE IF p = "app1" THEN 1 ELSE 2]]
    /\ containers = [d \in DepIds |-> IF d \in {1, 2} THEN "running" ELSE "none"]
    /\ followers = {1, 2}
    /\ key_order = [a \in Agents |-> IF a = MainAgent THEN <<"app1", "app2">> ELSE <<>>]
    /\ mround = NoRound
    /\ evLost = {}
    /\ followed = 0
    /\ emitted = [d \in DepIds |->
                    IF d = 1 THEN FirstDeployment
                    ELSE IF d = 2 THEN SecondDeployment ELSE <<>>]

NextMetrics ==
    \/ MetricsRound(MainAgent)
    \/ MetricsResume(MainAgent)
    \/ \E s \in DOMAIN sessions : Ingest(s)
    \/ \E app \in Apps : handle_stop(MainAgent, app)
    \/ \E app \in Apps : handle_restart(MainAgent, app)

SpecMetrics == InitMetrics /\ [][NextMetrics]_vars

(***************************************************************************)
(* C3: on one agent and for every app, at most one container created for   *)
(* the app is live (created and neither stopped nor removed), also while   *)
(* deploy, stop and restart commands for the app are handled concurrently. *)
(***************************************************************************)
Live(a, app) ==
    {c \in DepIds : /\ dtask[c].agent = a
                    /\ dtask[c].app = app
                    /\ containers[c] \in {"created", "running"}}

C3_OneLiveContainer ==
    \A a \in Agents : \A app \in Apps : Cardinality(Live(a, app)) <= 1

\* two handle_deploy tasks of one app in flight on one agent: the container of
\* one runs, the other has been refused its container
C3_Witness ==
    \E c \in DepIds : \E d \in DepIds \ {c} :
        /\ dtask[c].agent = dtask[d].agent
        /\ dtask[c].app = dtask[d].app
        /\ containers[c] = "running"
        /\ dtask[c].pc \notin {"none", "done"}
        /\ dtask[d].pc = "236"
        /\ containers[d] = "none"

(***************************************************************************)
(* C4: a subscriber receives the log events of its app in the order in     *)
(* which the agent emitted them.                                           *)
(***************************************************************************)
\* the numbers of the container log lines in a sequence of events
EmissionNumbers(events) ==
    LET lines == SelectSeq(events, LAMBDA m : m.n > 0)
    IN  [i \in 1..Len(lines) |-> lines[i].n]

C4_ReceivedInEmissionOrder ==
    \A q \in DOMAIN subs :
        LET ns == EmissionNumbers(subs[q].received)
        IN  \A i \in 1..Len(ns) : \A j \in 1..Len(ns) : i < j => ns[i] < ns[j]

C6_ExponentialBackoff ==
    \A a \in Agents : \A k \in 1..Len(waits[a]) :
        waits[a][k] = Min(INITIAL_BACKOFF * 2 ^ (k - 1), MAX_BACKOFF)

(***************************************************************************)
(* C9: readyz answers 503 exactly when no agent session is connected, and  *)
(* otherwise 200 with agents_count the number of connected sessions.       *)
(***************************************************************************)
ConnectedSessions == {s \in DOMAIN sessions : sessions[s].serverSide = "connected"}

C9_ReadyzCountsSessions ==
    /\ Readyz.status_code = 503 <=> Cardinality(ConnectedSessions) = 0
    /\ Readyz.status_code # 503 =>
          /\ Readyz.status_code = 200
          /\ Readyz.agents_count = Cardinality(ConnectedSessions)

\* two agents connected and readyz counted them, then the handler of each
\* session ended, and readyz answers 503 again
C9_Witness ==
    /\ Len(sessions) >= 2
    /\ ConnectedSessions = {}
    /\ Readyz.status_code = 503

(***************************************************************************)
(* The system with its scheduling: the event loop of the agent runs every  *)
(* task that can run (each call to git and to the runtime returns), and    *)
(* the handler of a session reads every message that has arrived.          *)
(***************************************************************************)
IngestOf(s) == s \in DOMAIN sessions /\ Ingest(s)

SpecFair ==
    /\ Spec
    /\ \A d \in DepIds : WF_vars(DeployStep(d))
    /\ \A s \in 1..MaxSessions : WF_vars(IngestOf(s))

(***************************************************************************)
(* C1: every deployment that trigger_deployment creates (for an app whose  *)
(* repository can be cloned and holds a Dockerfile) eventually has status  *)
(* running or failed.                                                      *)
(***************************************************************************)
Terminal(d) == d \in DOMAIN deployments /\ deployments[d].status \in {"running", "failed"}

C1_EveryDeploymentEnds ==
    \A d \in DepIds :
        [](d \in DOMAIN deployments /\ deployments[d].app_id \in GoodRepoApps
              => <>Terminal(d))

(***************************************************************************)
(* C2: every change of a deployment record's status is one of              *)
(* pending->building, building->running, building->failed and              *)
(* running->stopped.                                                       *)
(***************************************************************************)
AllowedTransitions ==
    {<<"pending", "building">>, <<"building", "running">>,
     <<"building", "failed">>, <<"running", "stopped">>}

C2_OnlyAllowedTransitions ==
    [][\A d \in DOMAIN deployments :
          deployments'[d].status # deployments[d].status
              => <<deployments[d].status, deployments'[d].status>> \in AllowedTransitions]_vars

(***************************************************************************)
(* C7: two deployments of the same app with distinct deployment ids get    *)
(* distinct image tags.                                                    *)
(***************************************************************************)
C7_DistinctTags ==
    \A i, j \in 1..Len(tagRuns) :
        tagRuns[i].deployment_id # tagRuns[j].deployment_id
            => tagRuns[i].image_tag # tagRuns[j].image_tag

(***************************************************************************)
(* C8: every cpu_percent that metrics_loop emits lies in [0,100], whatever *)
(* the four counters of the sample are.                                    *)
(***************************************************************************)
C8_CpuInRange ==
    cpuSample # <<>> => (0 <= cpuSample.cpu_percent /\ cpuSample.cpu_percent <= 10000)

(***************************************************************************)
(* C10: when a subscriber is cancelled, its queue and no other leaves      *)
(* log_subscribers, and every log event ingested for an app is put on the  *)
(* queue of every subscriber of the app that still listens.                *)
(***************************************************************************)
\* the step in which subscriber q is cancelled
CancelStep(q) == subs[q].pc = "get" /\ subs'[q].pc = "cancelled"

\* the step in which the handler of session s ingests a log event
IngestLogStep(s) ==
    /\ up[s] # <<>>
    /\ Head(up[s]).type = "log"
    /\ up'[s] = Tail(up[s])
    /\ sessions' = sessions

Listening(q) == subs[q].pc \in {"get", "yield"}

LogsOf(d) ==
    LET logs == SelectSeq(emitted[d], LAMBDA m : m.type = "log")
    IN  [i \in 1..Len(logs) |-> logs[i].log]

StatusesOf(d) ==
    LET sts == SelectSeq(emitted[d], LAMBDA m : m.type = "status_update")
    IN  [i \in 1..Len(sts) |-> sts[i].status]

CloneFailed(d) == <<"Deployment failed", "Git clone failed">> \in Range(LogsOf(d))

C11_CloneFailureFails ==
    \A d \in DepIds :
        CloneFailed(d) =>
            /\ <<"Building Docker image", "">> \notin Range(LogsOf(d))
            /\ <<"Starting container...", "">> \notin Range(LogsOf(d))
            /\ containers[d] = "none"
            /\ running_containers[dtask[d].agent][dtask[d].app] # d
            /\ dtask[d].pc \in {"236", "done"}
            /\ dtask[d].pc = "done" =>
                  StatusesOf(d)[Len(StatusesOf(d))] = "failed"

\* the task of a deployment whose clone failed has ended
C11_Witness ==
    \E d \in DepIds : CloneFailed(d) /\ dtask[d].pc = "done"

(***************************************************************************)
(* C12: a deployment whose clone, build and container start succeed sends, *)
(* in this order, status building, the start log, the clone-success log,   *)
(* the image-built log, the container-starting log, the container-started  *)
(* log, deployment_complete and, as its last status, running; and the      *)
(* deployment_complete event carries a port and a url that are not null.   *)
(***************************************************************************)
\* what a message is, apart from the values it carries
KeyOf(m) ==
    IF m.type = "log" THEN <<"log", m.log[1]>>
    ELSE IF m.type = "status_update" THEN <<"status", m.status>>
    ELSE <<m.type, "">>

KeysOf(d) == [i \in 1..Len(emitted[d]) |-> KeyOf(emitted[d][i])]

RECURSIVE IsSubseq(_, _)
IsSubseq(s, t) ==
    IF s = <<>> THEN TRUE
    ELSE IF t = <<>> THEN FALSE
    ELSE IF Head(s) = Head(t) THEN IsSubseq(Tail(s), Tail(t))
    ELSE IsSubseq(s, Tail(t))

SuccessOrder ==
    <<<<"status", "building">>,
      <<"log", "Starting deployment">>,
      <<"log", "Repository cloned successfully">>,
      <<"log", "Docker image built successfully">>,
      <<"log", "Starting container...">>,
      <<"log", "Container started on port">>,
      <<"deployment_complete", "">>,
      <<"status", "running">>>>

CompleteEvents(d) == SelectSeq(emitted[d], LAMBDA m : m.type = "deployment_complete")

\* the task of d has ended and all its steps succeeded
Succeeded(d) == dtask[d].pc = "done" /\ CompleteEvents(d) # <<>>

C12_SuccessSequence ==
    \A d \in DepIds :
        Succeeded(d) =>
            /\ IsSubseq(SuccessOrder, KeysOf(d))
            /\ StatusesOf(d)[Len(StatusesOf(d))] = "running"
            /\ \A i \in 1..Len(CompleteEvents(d)) :
                  /\ CompleteEvents(d)[i].port # None
                  /\ CompleteEvents(d)[i].url # None

(***************************************************************************)
(* C13: trigger_deployment with no agent connected sends no command and    *)
(* stores none: an agent that connects later never gets it; the record it  *)
(* creates and returns is the one it creates with an agent connected.      *)
(***************************************************************************)
\* the step is a call of trigger_deployment
TriggerStep == Len(deployments') = Len(deployments) + 1

\* the deployments with a deploy command in flight
Commands(dn) ==
    UNION {{dn[s][i].deployment_id : i \in 1..Len(dn[s])} : s \in DOMAIN dn}

\* the deployments with a handle_deploy task
Started(tasks) == {d \in DepIds : tasks[d].pc # "none"}

C13_NoAgentNoCommand ==
    [][/\ TriggerStep =>
             \E app \in Apps :
                 deployments' = Append(deployments,
                     [app_id |-> app, status |-> "pending", build_logs |-> <<>>,
                      completed_at |-> None])
       /\ TriggerStep /\ Len(active_agents) = 0 =>
             /\ down' = down
             /\ dtask' = dtask
       /\ Commands(down') \ Commands(down) \subseteq
             (IF TriggerStep /\ Len(active_agents) > 0
              THEN {Len(deployments')} ELSE {})
       /\ Started(dtask') \ Started(dtask) \subseteq Commands(down)]_vars

\* a deployment triggered before the only session there has been: the agent
\* is connected and listens, nothing is in flight, and the deployment has no
\* task
C13_Witness ==
    /\ Len(sessions) = 1
    /\ sessions[1].agentSide = "open" /\ sessions[1].serverSide = "connected"
    /\ agentPc[sessions[1].agent] = "listening"
    /\ up[1] = <<>> /\ down[1] = <<>>
    /\ \E d \in DOMAIN deployments : dtask[d].pc = "none"

(***************************************************************************)
(* C14: an ingested log event of app A is appended once to every queue     *)
(* registered under A at that moment and to no other queue; a queue starts *)
(* empty, so a later subscriber never gets an event ingested before.       *)
(***************************************************************************)
Registered(q, app) ==
    app \in DOMAIN log_subscribers /\ q \in Range(log_subscribers[app])

\* the events that subscriber q has been given so far
Given(q) == subs[q].received \o subs[q].queue

C14_FanOutToRegistered ==
    [][/\ \A s \in DOMAIN sessions :
             IngestLogStep(s) =>
                 \A q \in DOMAIN subs :
                     subs'[q].queue =
                        IF Registered(q, Head(up[s]).app_id)
                        THEN Append(subs[q].queue, Head(up[s]))
                        ELSE subs[q].queue
       /\ \A q \in DOMAIN subs' \ DOMAIN subs :
             subs'[q].queue = <<>> /\ subs'[q].received = <<>>
       /\ (\A s \in DOMAIN sessions : ~IngestLogStep(s)) =>
             \A q \in DOMAIN subs :
                 subs'[q].received \o subs'[q].queue = Given(q)]_vars

\* two registered subscribers of one app of which the later was given fewer
\* events, and a subscriber of another app that was given none
C14_Witness ==
    \E q1 \in DOMAIN subs : \E q2 \in DOMAIN subs : \E q3 \in DOMAIN subs :
        /\ q1 < q2
        /\ subs[q1].app = subs[q2].app
        /\ Registered(q1, subs[q1].app) /\ Registered(q2, subs[q2].app)
        /\ Len(Given(q2)) < Len(Given(q1))
        /\ subs[q3].app # subs[q1].app
        /\ Registered(q3, subs[q3].app)
        /\ Given(q3) = <<>>

(***************************************************************************)
(* C15: once a step of handle_deploy has raised, the task sends exactly    *)
(* one failure log with the error text, then status failed, and nothing    *)
(* after it; a step that raised before the container ran leaves no running *)
(* container of the deployment; the deployment is started only once.       *)
(***************************************************************************)
\* the positions in what deployment d sent that hold a failure log
FailureLogs(d) ==
    {i \in 1..Len(emitted[d]) :
        emitted[d][i].type = "log" /\ emitted[d][i].log[1] = "Deployment failed"}

\* the errors of the steps before the container is started
EarlyErrors ==
    {"workspace", "Git clone failed", "Dockerfile not found in repository",
     "build", "run", "start"}

C15_FailureEndsDeployment ==
    \A d \in DepIds :
        FailureLogs(d) # {} =>
            LET n == Len(emitted[d])
                f == CHOOSE i \in FailureLogs(d) : TRUE
            IN  /\ FailureLogs(d) = {f}
                /\ dtask[d].pc \in {"236", "done"}
                /\ dtask[d].pc = "236" => f = n
                /\ dtask[d].pc = "done" =>
                      /\ f = n - 1
                      /\ emitted[d][n].type = "status_update"
                      /\ emitted[d][n].status = "failed"
                /\ Cardinality({i \in 1..n :
                       /\ emitted[d][i].type = "status_update"
                       /\ emitted[d][i].status = "building"}) = 1
                /\ emitted[d][f].log[2] \in EarlyErrors =>
                      /\ containers[d] # "running"
                      /\ running_containers[dtask[d].agent][dtask[d].app] # d

\* the build of a deployment raised and the task has ended
C15_Witness ==
    \E d \in DepIds :
        /\ dtask[d].pc = "done"
        /\ \E i \in FailureLogs(d) : emitted[d][i].log[2] = "build"

(***************************************************************************)
(* C16: a deployment whose stop or removal of the tracked container failed *)
(* is not aborted by it: when the task comes to containers.run, the name   *)
(* of the new container is free, so the container can be started.          *)
(***************************************************************************)
C16_FailedStopDoesNotAbort ==
    \A d \in DepIds :
        (dtask[d].pc = "193" /\ dtask[d].warned) =>
            ~NameTaken(dtask[d].agent, d)

(***************************************************************************)
(* C18: at most one metrics loop is active on an agent, whatever the       *)
(* number of disconnects and reconnects.                                   *)
(***************************************************************************)
C18_OneMetricsLoop ==
    \A a \in Agents : metricsLoops[a] <= 1

(***************************************************************************)
(* C19: a message of a deployment goes out only on the session its deploy  *)
(* command arrived on: a step that puts a message with a deployment id on  *)
(* the websocket of session s is a step of a task started from s.          *)
(***************************************************************************)
C19_NoMessageOnLaterSession ==
    [][\A s \in DOMAIN up :
          Len(up'[s]) > Len(up[s]) =>
              LET m == up'[s][Len(up'[s])]
              IN  m.deployment_id # None =>
                      dtask[m.deployment_id].session = s]_vars

(***************************************************************************)
(* C20: ingesting a status_update event sets the status of the app named   *)
(* by app_id and, only if the event carries a deployment id, the status of *)
(* that deployment; port, url, completed_at and every other app and        *)
(* deployment record stay as they are.                                     *)
(***************************************************************************)
IngestStatusStep(s) ==
    /\ sessions[s].serverSide = "connected"
    /\ up[s] # <<>>
    /\ Head(up[s]).type = "status_update"
    /\ up'[s] = Tail(up[s])

C20_StatusUpdateSetsOnlyStatus ==
    [][\A s \in DOMAIN sessions :
          IngestStatusStep(s) =>
              LET m == Head(up[s])
              IN  /\ \A a \in Apps :
                        apps'[a] = IF a = m.app_id
                                   THEN [apps[a] EXCEPT !.status = m.status]
                                   ELSE apps[a]
                  /\ Len(deployments') = Len(deployments)
                  /\ \A d \in DOMAIN deployments :
                        deployments'[d] =
                           IF m.deployment_id # None /\ d = m.deployment_id
                           THEN [deployments[d] EXCEPT !.status = m.status]
                           ELSE deployments[d]]_vars

\* deployment 1 was set to failed by an event that named it, and the app of
\* deployment 2 was set to stopped by an event that left deployment 2 pending
C20_Witness ==
    /\ Len(deployments) = 2
    /\ deployments[1].status = "failed"
    /\ deployments[2].status = "pending"
    /\ apps[deployments[2].app_id].status = "stopped"
    /\ deployments[1].app_id = deployments[2].app_id

(***************************************************************************)
(* C17: when a sampling round of metrics_loop has ended, every app that    *)
(* was tracked at its start and still is, and whose sampling did not       *)
(* raise, has yielded a metrics event in the round, also when a handler    *)
(* changed running_containers while the round was suspended at a send.     *)
(***************************************************************************)
C17_RoundSamplesEveryContainer ==
    mround.pc \in {"307", "311"} =>
        \A app \in mround.start :
            (/\ running_containers[MainAgent][app] # None
             /\ app \notin mround.failed)
               => app \in mround.sent

(***************************************************************************)
(* C21: ingesting a deployment_complete event sets the status of the app   *)
(* it names to running and its port and url to those of the event, and     *)
(* sets the status of the deployment it names to running and its           *)
(* completed_at to a time, whatever the status of either was; no other     *)
(* record changes.                                                         *)
(***************************************************************************)
IngestCompleteStep(s) ==
    /\ sessions[s].serverSide = "connected"
    /\ up[s] # <<>>
    /\ Head(up[s]).type = "deployment_complete"
    /\ up'[s] = Tail(up[s])

C21_CompleteSetsRunning ==
    [][\A s \in DOMAIN sessions :
          IngestCompleteStep(s) =>
              LET m == Head(up[s])
              IN  /\ \A a \in Apps :
                        IF a = m.app_id
                        THEN /\ apps'[a].status = "running"
                             /\ apps'[a].port = m.port
                             /\ apps'[a].url = m.url
                        ELSE apps'[a] = apps[a]
                  /\ Len(deployments') = Len(deployments)
                  /\ \A d \in DOMAIN deployments :
                        IF d = m.deployment_id
                        THEN /\ deployments'[d].status = "running"
                             /\ deployments'[d].completed_at = "now"
                             /\ deployments'[d].app_id = deployments[d].app_id
                             /\ deployments'[d].build_logs = deployments[d].build_logs
                        ELSE deployments'[d] = deployments[d]]_vars

\* an event naming app2 and deployment 1, a deployment of app1, has been
\* ingested: both run, app1 is still building
C21_Witness ==
    /\ Len(deployments) >= 1
    /\ deployments[1].app_id = "app1"
    /\ deployments[1].status = "running"
    /\ deployments[1].completed_at = "now"
    /\ apps["app1"].status = "building"
    /\ apps["app2"].status = "running"
    /\ apps["app2"].port = 32768

(***************************************************************************)
(* C22: ingesting a log event changes no app, deployment or metrics        *)
(* record, its only effect being on the subscriber queues; the build_logs  *)
(* of every deployment record stay empty whatever events are ingested.     *)
(***************************************************************************)
C22_LogNotPersisted ==
    /\ [](\A d \in DOMAIN deployments : deployments[d].build_logs = <<>>)
    /\ [][\A s \in DOMAIN sessions :
             IngestLogStep(s) =>
                /\ UNCHANGED <<apps, deployments, db_metrics, log_subscribers>>
                /\ \A q \in DOMAIN subs :
                      /\ subs'[q].received = subs[q].received
                      /\ subs'[q].pc = subs[q].pc]_vars

\* a subscriber has been given a log line of deployment 1, whose record is
\* as deployment_complete left it
C22_Witness ==
    /\ \E q \in DOMAIN subs :
          \E i \in 1..Len(Given(q)) : Given(q)[i].deployment_id = 1
    /\ deployments[1].build_logs = <<>>
    /\ deployments[1].status = "running"

(***************************************************************************)
(* C23: the connect loop never ends, whatever the number of consecutive    *)
(* failures and of disconnects; and if from some time on no connection     *)
(* attempt fails, the agent comes to be connected, its register message    *)
(* sent, whenever the model has a session left for it.                     *)
(***************************************************************************)
C23_RetriesForever ==
    /\ [](agentPc[MainAgent] \in {"connecting", "sleeping", "listening"})
    /\ [](agentPc[MainAgent] = "listening" =>
             /\ websocket[MainAgent] = Len(sessions)
             /\ sessions[Len(sessions)].agent = MainAgent)
    /\ (<>[][~ConnectFail(MainAgent)]_vars) =>
          [](Len(sessions) < MaxSessions => <>(agentPc[MainAgent] = "listening"))

\* after a session that ended and more than MAX_RETRIES failures in a row
\* the agent is about to try again
C23_Witness ==
    /\ Len(sessions) >= 1
    /\ sessions[1].agentSide = "closed"
    /\ Len(waits[MainAgent]) > MAX_RETRIES
    /\ agentPc[MainAgent] = "connecting"

(***************************************************************************)
(* C24: with an agent registered, trigger_deployment sends the command of  *)
(* the deployment it creates to the session that is first in               *)
(* active_agents and to no other; if that send fails the command goes to   *)
(* no session at all.                                                      *)
(***************************************************************************)
C24_RoutesToFirstRegistered ==
    [][(TriggerStep /\ active_agents # <<>>) =>
          LET first == active_agents[1]
          IN  /\ \A s \in DOMAIN down : s # first => down'[s] = down[s]
              /\ IF sessions[first].agentSide = "open"
                 THEN /\ Len(down'[first]) = Len(down[first]) + 1
                      /\ down'[first][Len(down'[first])].deployment_id = Len(deployments')
                      /\ down'[first][Len(down'[first])].type = "deploy"
                 ELSE down'[first] = down[first]]_vars

\* two sessions are registered, the socket of the first is closed and that of
\* the second open; a deployment was triggered and no session holds a command
C24_Witness ==
    /\ Len(active_agents) = 2
    /\ sessions[active_agents[1]].agentSide = "closed"
    /\ sessions[active_agents[2]].agentSide = "open"
    /\ Len(deployments) >= 1
    /\ \A d \in DepIds : dtask[d].pc = "none"
    /\ \A s \in DOMAIN down : down[s] = <<>>

(***************************************************************************)
(* C25: a handle_deploy task that has ended with status failed has left no *)
(* running container of its deployment, and running_containers does not    *)
(* hold a container of it.                                                 *)
(***************************************************************************)
EndedFailed(d) ==
    /\ dtask[d].pc = "done"
    /\ emitted[d] # <<>>
    /\ emitted[d][Len(emitted[d])].type = "status_update"
    /\ emitted[d][Len(emitted[d])].status = "failed"

C25_FailedLeavesNothing ==
    \A d \in DepIds :
        EndedFailed(d) =>
            /\ containers[d] # "running"
            /\ running_containers[dtask[d].agent][dtask[d].app] # d

(***************************************************************************)
(* C26: every handle that running_containers holds is of a container that  *)
(* exists: created and not removed.                                        *)
(***************************************************************************)
C26_HandlesExist ==
    \A a \in Agents : \A app \in Apps :
        running_containers[a][app] # None => Exists(running_containers[a][app])

(***************************************************************************)
(* C27: handle_stop and handle_restart send nothing; the statuses the      *)
(* agent sends are building, running and failed; no app record and no      *)
(* deployment record ever has status stopped, also after a stop command    *)
(* has removed the container of the app.                                   *)
(***************************************************************************)
\* a step of handle_stop or handle_restart: the runtime state of a container
\* changes and no handle_deploy task moves
StopOrRestartStep == containers' # containers /\ dtask' = dtask

C27_NeverStopped ==
    /\ [](/\ \A app \in Apps : apps[app].status # "stopped"
          /\ \A d \in DOMAIN deployments : deployments[d].status # "stopped"
          /\ \A d \in DepIds :
                Range(StatusesOf(d)) \subseteq {"building", "running", "failed"})
    /\ [][StopOrRestartStep => up' = up]_vars

\* a stop command has removed the container of a deployment that is still
\* recorded as running, as is its app, which the agent tracks no longer
C27_Witness ==
    \E d \in DOMAIN deployments :
        /\ containers[d] = "removed"
        /\ deployments[d].status = "running"
        /\ apps[deployments[d].app_id].status = "running"
        /\ running_containers[MainAgent][deployments[d].app_id] = None

(***************************************************************************)
(* C28: once the task of every triggered deployment has ended and every    *)
(* event has been ingested, none lost, the status of an app is the status  *)
(* of the deployment of it that was triggered last.                        *)
(***************************************************************************)
DeploymentsOf(app) == {d \in DOMAIN deployments : deployments[d].app_id = app}

\* server.py:206-210: the deployment of the app with the latest started_at
LatestDeployment(app) ==
    CHOOSE d \in DeploymentsOf(app) : \A e \in DeploymentsOf(app) : e <= d

AllIngested ==
    /\ \A d \in DOMAIN deployments : dtask[d].pc = "done"
    /\ \A s \in DOMAIN up : up[s] = <<>>
    /\ evLost = {}

C28_AppStatusIsLatest ==
    AllIngested =>
        \A app \in Apps :
            DeploymentsOf(app) # {} =>
                apps[app].status = deployments[LatestDeployment(app)].status

=============================================================================
